---------------------------- MODULE Spec2Model ----------------------------
(***************************************************************************)
(* A model of seller.py: the synchronisation of the stock counts and the   *)
(* prices of a watch feed (ostatki.xls) with the Ozon seller API.          *)
(*                                                                         *)
(* Python strings are sequences of one-character strings, so that the      *)
(* conversions of the program (str, int, split, re.sub) are computed       *)
(* character by character.  A spreadsheet cell is a tagged value: a        *)
(* string, an int, a float or None (a missing column).  The fixed labels   *)
(* the program only passes along (exception names, "RUB") are TLA+ strings. *)
(***************************************************************************)
EXTENDS Integers, Sequences, FiniteSets, TLC

VARIABLES
    pc,             \* the position of the program
    catalog_total,  \* the "total" the product list endpoint reports
    page_requests,  \* get_product_list calls made so far (it stops counting
                    \* at MaxRequests, so that an endless loop has finitely
                    \* many states)
    last_id,        \* get_offer_ids: the cursor of the last page ("" before
                    \* the first page and after the loop)
    product_list,   \* get_offer_ids: the offer ids collected, as fetched
    offer_ids,      \* main: the list get_offer_ids returned (mutated later)
    watch_remnants, \* main: the records download_stock returned
    stocks,         \* main: the result of create_stocks
    prices,         \* main: the result of create_prices
    pending,        \* main: the chunks of the running for loop not sent yet
    calls,          \* the download and write calls made so far, in order
    exc,            \* the exception in flight ("none" when there is none)
    printed,        \* what main printed ("none" when nothing)
    args,           \* a unit call: the arguments of the function called
    ret             \* a unit call: what the call produced

vars == <<pc, catalog_total, page_requests, last_id, product_list, offer_ids, watch_remnants, stocks,
          prices, pending, calls, exc, printed, args, ret>>

mainVars == <<catalog_total, page_requests, last_id, product_list, offer_ids, watch_remnants, stocks,
              prices, pending, calls, exc, printed>>

-----------------------------------------------------------------------------
(* Bounds of the model. *)

\* the longest list handed to divide
MaxLen == 4
\* the largest chunk size handed to divide (the smallest is -MaxN)
MaxN == 3
\* the longest enumerated price string
MaxPriceLen == 3
\* the longest enumerated quantity string
MaxQtyLen == 3
\* the most records of an enumerated inventory
MaxInv == 2
\* the most identifiers of an enumerated known-offer list
MaxK == 3
\* the most items the enumerated catalog pages add up to
MaxItems == 3
\* the most items of one enumerated catalog page
PageMax == 2
\* the largest total an enumerated catalog reports
MaxTotal == 3
\* the count at which page_requests stops counting
MaxRequests == 3

(* Constants of the program. *)

\* main: the chunk size of the stock writes
StockBatch == 100
\* main: the chunk size of the price writes
PriceBatch == 900

-----------------------------------------------------------------------------
(* Sequences. *)

Range(s) == {s[i] : i \in 1..Len(s)}

Count(s, x) == Cardinality({i \in 1..Len(s) : s[i] = x})

\* every sequence over S of length at most n
SeqsUpTo(S, n) == UNION {[1..k -> S] : k \in 0..n}

RECURSIVE Concat(_)
Concat(ss) == IF ss = <<>> THEN <<>> ELSE Head(ss) \o Concat(Tail(ss))

\* Python's s[i:j] for 0 <= i and 0 <= j, on a 1-based TLA+ sequence
Slice(s, i, j) == SubSeq(s, i + 1, IF j < Len(s) THEN j ELSE Len(s))

\* Python's x in lst
In(x, lst) == \E i \in 1..Len(lst) : lst[i] = x

\* Python's lst.remove(x) when x is in lst: the first occurrence goes
Remove(lst, x) ==
    LET k == CHOOSE i \in 1..Len(lst) :
                 lst[i] = x /\ \A j \in 1..(i - 1) : lst[j] # x
    IN  SubSeq(lst, 1, k - 1) \o SubSeq(lst, k + 1, Len(lst))

-----------------------------------------------------------------------------
(* Cell values and Python's str() and int(). *)

DigitSeq == <<"0", "1", "2", "3", "4", "5", "6", "7", "8", "9">>
Digits == Range(DigitSeq)
DigitChar(k) == DigitSeq[k + 1]
DigitVal(c) == CHOOSE k \in 0..9 : DigitSeq[k + 1] = c

StrV(s) == [t |-> "str", s |-> s, n |-> 0, d |-> 0]
IntV(n) == [t |-> "int", s |-> <<>>, n |-> n, d |-> 0]
\* the float n + d/10, for n >= 0 and a digit d
FloatV(n, d) == [t |-> "float", s |-> <<>>, n |-> n, d |-> d]
NoneV == [t |-> "None", s |-> <<>>, n |-> 0, d |-> 0]

RECURSIVE NatStr(_)
NatStr(n) ==
    IF n < 10 THEN <<DigitChar(n)>>
    ELSE Append(NatStr(n \div 10), DigitChar(n % 10))

IntStr(n) == IF n < 0 THEN <<"-">> \o NatStr(-n) ELSE NatStr(n)

\* str(v)
PyStr(v) ==
    CASE v.t = "str" -> v.s
      [] v.t = "int" -> IntStr(v.n)
      [] v.t = "float" -> IntStr(v.n) \o <<".", DigitChar(v.d)>>
      [] OTHER -> <<"N", "o", "n", "e">>

RECURSIVE LStrip(_)
LStrip(s) == IF s # <<>> /\ Head(s) = " " THEN LStrip(Tail(s)) ELSE s

RECURSIVE RStrip(_)
RStrip(s) ==
    IF s # <<>> /\ s[Len(s)] = " " THEN RStrip(SubSeq(s, 1, Len(s) - 1)) ELSE s

RECURSIVE DigitsVal(_)
DigitsVal(s) ==
    IF s = <<>> THEN 0
    ELSE 10 * DigitsVal(SubSeq(s, 1, Len(s) - 1)) + DigitVal(s[Len(s)])

\* int(s) of a string, base 10: surrounding whitespace is dropped, one sign is
\* allowed, and single underscores may separate the digits
ParseInt(s) ==
    LET t == RStrip(LStrip(s))
        signed == t # <<>> /\ Head(t) \in {"+", "-"}
        body == IF signed THEN Tail(t) ELSE t
        wellFormed ==
            /\ body # <<>>
            /\ \A i \in 1..Len(body) : body[i] \in Digits \cup {"_"}
            /\ body[1] # "_"
            /\ body[Len(body)] # "_"
            /\ \A i \in 1..(Len(body) - 1) : ~(body[i] = "_" /\ body[i + 1] = "_")
        val == DigitsVal(SelectSeq(body, LAMBDA c : c \in Digits))
    IN  IF ~wellFormed THEN [ok |-> FALSE, val |-> 0, exc |-> "ValueError"]
        ELSE [ok |-> TRUE,
              val |-> IF signed /\ Head(t) = "-" THEN -val ELSE val,
              exc |-> "none"]

\* int(v)
PyInt(v) ==
    CASE v.t = "int" -> [ok |-> TRUE, val |-> v.n, exc |-> "none"]
      [] v.t = "float" -> [ok |-> TRUE, val |-> v.n, exc |-> "none"]
      [] v.t = "str" -> ParseInt(v.s)
      [] OTHER -> [ok |-> FALSE, val |-> 0, exc |-> "TypeError"]

-----------------------------------------------------------------------------
(* price_conversion *)

\* price.split(".")[0]
SplitDot0(s) ==
    IF \E i \in 1..Len(s) : s[i] = "."
    THEN SubSeq(s, 1, (CHOOSE i \in 1..Len(s) :
                           s[i] = "." /\ \A j \in 1..(i - 1) : s[j] # ".") - 1)
    ELSE s

\* re.sub("[^0-9]", "", s)
SubNonDigits(s) == SelectSeq(s, LAMBDA c : c \in Digits)

price_conversion_whole(price) ==
    IF price.t # "str" THEN [ok |-> FALSE, val |-> <<>>, exc |-> "AttributeError"]
    ELSE [ok |-> TRUE, val |-> SubNonDigits(price.s), exc |-> "none"]

price_conversion(price) ==
    IF price.t # "str" THEN [ok |-> FALSE, val |-> <<>>, exc |-> "AttributeError"]
    ELSE [ok |-> TRUE, val |-> SubNonDigits(SplitDot0(price.s)), exc |-> "none"]

-----------------------------------------------------------------------------
(* divide *)

\* list(range(0, stop, step)) for stop >= 0: no value when step is 0, the
\* empty range when step is negative
Range0(stop, step) ==
    IF step = 0 THEN [ok |-> FALSE, val |-> <<>>, exc |-> "ValueError"]
    ELSE IF step < 0 THEN [ok |-> TRUE, val |-> <<>>, exc |-> "none"]
    ELSE [ok |-> TRUE,
          val |-> [k \in 1..((stop + step - 1) \div step) |-> (k - 1) * step],
          exc |-> "none"]

divide_drop_last(lst, n) ==
    LET r == Range0(Len(lst), n)
    IN  IF ~r.ok THEN r
        ELSE [ok |-> TRUE,
              val |-> [k \in 1..(Len(r.val) - 1) |->
                          Slice(lst, r.val[k], r.val[k] + n)],
              exc |-> "none"]

divide_overlap(lst, n) ==
    LET r == Range0(Len(lst), n)
    IN  IF ~r.ok THEN r
        ELSE [ok |-> TRUE,
              val |-> [k \in 1..Len(r.val) |-> Slice(lst, r.val[k], r.val[k] + n + 1)],
              exc |-> "none"]

\* list(divide(lst, n)): the chunks the generator yields, or the exception its
\* first step raises
divide(lst, n) ==
    LET r == Range0(Len(lst), n)
    IN  IF ~r.ok THEN r
        ELSE [ok |-> TRUE,
              val |-> [k \in 1..Len(r.val) |-> Slice(lst, r.val[k], r.val[k] + n)],
              exc |-> "none"]


-----------------------------------------------------------------------------
(* create_stocks and create_prices.  A record of watch_remnants has the    *)
(* fields Kod, Kolichestvo and Cena: the columns of the spreadsheet, whose *)
(* Cyrillic names are transliterated.                                      *)

Watch(kod, kolichestvo, cena) ==
    [Kod |-> kod, Kolichestvo |-> kolichestvo, Cena |-> cena]

\* the stock of one matched record
StockOf(watch) ==
    LET count == PyStr(watch.Kolichestvo)
    IN  IF count = <<">", "1", "0">> THEN [ok |-> TRUE, val |-> 100, exc |-> "none"]
        ELSE IF count = <<"1">> THEN [ok |-> TRUE, val |-> 0, exc |-> "none"]
        ELSE PyInt(watch.Kolichestvo)

StockStepNoRemove(st, watch) ==
    IF ~st.ok \/ ~In(PyStr(watch.Kod), st.offer_ids) THEN st
    ELSE LET stock == StockOf(watch)
         IN  IF ~stock.ok THEN [st EXCEPT !.ok = FALSE, !.exc = stock.exc]
             ELSE [st EXCEPT
                     !.val = Append(@, [offer_id |-> PyStr(watch.Kod),
                                        stock |-> stock.val])]

\* one pass of the first loop of create_stocks; st.ok is FALSE once int() has
\* raised, which ends the loop
StockStep(st, watch) ==
    IF ~st.ok \/ ~In(PyStr(watch.Kod), st.offer_ids) THEN st
    ELSE LET stock == StockOf(watch)
         IN  IF ~stock.ok THEN [st EXCEPT !.ok = FALSE, !.exc = stock.exc]
             ELSE [st EXCEPT
                     !.val = Append(@, [offer_id |-> PyStr(watch.Kod),
                                        stock |-> stock.val]),
                     !.offer_ids = Remove(@, PyStr(watch.Kod))]

\* the first loop over watch_remnants[lo..hi], in order: the first half,
\* then, unless it raised, the second (halving keeps the evaluation shallow)
RECURSIVE StockLoop(_, _, _, _)
StockLoop(watch_remnants_, lo, hi, st) ==
    IF lo > hi THEN st
    ELSE IF lo = hi THEN StockStep(st, watch_remnants_[lo])
    ELSE LET mid == (lo + hi) \div 2
             left == StockLoop(watch_remnants_, lo, mid, st)
         IN  IF left.ok THEN StockLoop(watch_remnants_, mid + 1, hi, left)
             ELSE left

\* create_stocks(watch_remnants, offer_ids): the list returned (val), or the
\* exception raised, and the caller's offer_ids list as the call leaves it
create_stocks(watch_remnants_, offer_ids_) ==
    LET st == StockLoop(watch_remnants_, 1, Len(watch_remnants_),
                        [ok |-> TRUE, val |-> <<>>, exc |-> "none",
                         offer_ids |-> offer_ids_])
    IN  IF ~st.ok THEN st
        ELSE [st EXCEPT
                !.val = @ \o [i \in 1..Len(st.offer_ids) |->
                                 [offer_id |-> st.offer_ids[i], stock |-> 0]]]

PriceStepAll(st, watch, offer_ids_) ==
    IF ~st.ok THEN st
    ELSE LET price == price_conversion(watch.Cena)
         IN  IF ~price.ok THEN [st EXCEPT !.ok = FALSE, !.exc = price.exc]
             ELSE [st EXCEPT
                     !.val = Append(@, [auto_action_enabled |-> "UNKNOWN",
                                        currency_code |-> "RUB",
                                        offer_id |-> PyStr(watch.Kod),
                                        old_price |-> "0",
                                        price |-> price.val])]

\* one pass of the loop of create_prices
PriceStep(st, watch, offer_ids_) ==
    IF ~st.ok \/ ~In(PyStr(watch.Kod), offer_ids_) THEN st
    ELSE LET price == price_conversion(watch.Cena)
         IN  IF ~price.ok THEN [st EXCEPT !.ok = FALSE, !.exc = price.exc]
             ELSE [st EXCEPT
                     !.val = Append(@, [auto_action_enabled |-> "UNKNOWN",
                                        currency_code |-> "RUB",
                                        offer_id |-> PyStr(watch.Kod),
                                        old_price |-> "0",
                                        price |-> price.val])]

RECURSIVE PriceLoop(_, _, _, _, _)
PriceLoop(watch_remnants_, offer_ids_, lo, hi, st) ==
    IF lo > hi THEN st
    ELSE IF lo = hi THEN PriceStep(st, watch_remnants_[lo], offer_ids_)
    ELSE LET mid == (lo + hi) \div 2
             left == PriceLoop(watch_remnants_, offer_ids_, lo, mid, st)
         IN  IF left.ok
             THEN PriceLoop(watch_remnants_, offer_ids_, mid + 1, hi, left)
             ELSE left

\* create_prices(watch_remnants, offer_ids)
create_prices(watch_remnants_, offer_ids_) ==
    PriceLoop(watch_remnants_, offer_ids_, 1, Len(watch_remnants_),
              [ok |-> TRUE, val |-> <<>>, exc |-> "none"])

-----------------------------------------------------------------------------
(* Unit calls: one function applied to arguments drawn from bounded sets. *)

NoRet == [ok |-> FALSE, val |-> <<>>, exc |-> "none"]

\* the variables of main, untouched by a unit call
MainIdle ==
    /\ catalog_total = 0
    /\ page_requests = 0
    /\ last_id = ""
    /\ product_list = <<>>
    /\ offer_ids = <<>>
    /\ watch_remnants = <<>>
    /\ stocks = <<>>
    /\ prices = <<>>
    /\ pending = <<>>
    /\ calls = <<>>
    /\ exc = "none"
    /\ printed = "none"

\* the docstring's example, 5'990.00 rub. (the letters r, u, b stand for the
\* Cyrillic letters of the source, which are no ASCII digits either)
PriceExample ==
    <<"5", "'", "9", "9", "0", ".", "0", "0", " ", "r", "u", "b", ".">>

PriceChars == {"5", "0", "'", ".", " ", "r"}

PriceInputs ==
    {StrV(s) : s \in SeqsUpTo(PriceChars, MaxPriceLen) \cup {PriceExample}}
        \cup {NoneV, IntV(5990)}

InitPriceConversion ==
    /\ pc = "call"
    /\ args \in {[price |-> p] : p \in PriceInputs}
    /\ ret = NoRet
    /\ MainIdle

CallPriceConversion ==
    /\ pc = "call"
    /\ pc' = "return"
    /\ ret' = price_conversion(args.price)
    /\ UNCHANGED <<args, mainVars>>

SpecPriceConversion ==
    InitPriceConversion /\ [][CallPriceConversion]_vars

DivideItems == {"a", "b"}

InitDivide ==
    /\ pc = "call"
    /\ args \in {[lst |-> l, n |-> n] :
                    l \in SeqsUpTo(DivideItems, MaxLen), n \in (-MaxN)..MaxN}
    /\ ret = NoRet
    /\ MainIdle

CallDivide ==
    /\ pc = "call"
    /\ pc' = "return"
    /\ ret' = divide(args.lst, args.n)
    /\ UNCHANGED <<args, mainVars>>

SpecDivide == InitDivide /\ [][CallDivide]_vars

\* offer ids and spreadsheet cells of the enumerated inputs
A == <<"A">>
B == <<"B">>
C == <<"C">>
X == <<"X">>
N12 == <<"1", "2">>

KnownIds == {A, B, N12}

QtyMore == StrV(<<">", "1", "0">>)
QtyOne == StrV(<<"1">>)
QtySeven == StrV(<<"7">>)
QtyBad == StrV(<<"x">>)

PriceA == StrV(<<"5", "'", "9", "9", "0", ".", "0", "0">>)
PriceB == StrV(<<"1", "0", "0", ".", "0", "0">>)

\* a code is a text cell or a numeric cell; X is on no known-offer list
Codes == {StrV(A), IntV(12), StrV(X)}

\* the end-to-end scenario: known offers A, B, C and inventory records A, B
ExampleOffers == <<A, B, C>>
ExampleInventory ==
    <<Watch(StrV(A), QtyMore, PriceA), Watch(StrV(B), QtyOne, PriceB)>>

QtyChars == {"1", "0", "7", ">", " ", "_", "-", "."}

\* every quantity cell tried on a single record
QtyValues ==
    {StrV(s) : s \in SeqsUpTo(QtyChars, MaxQtyLen)}
        \cup {IntV(1), IntV(7), FloatV(1, 0), FloatV(7, 5), NoneV}

StockInventories ==
    SeqsUpTo({Watch(c, q, PriceA) :
                 c \in Codes, q \in {QtyMore, QtyOne, QtySeven, QtyBad}}, MaxInv)

InitCreateStocks ==
    /\ pc = "call"
    /\ args \in
         {[watch_remnants |-> i, offer_ids |-> k] :
             i \in StockInventories, k \in SeqsUpTo(KnownIds, MaxK)}
           \cup {[watch_remnants |-> <<Watch(StrV(A), q, PriceA)>>,
                  offer_ids |-> <<A>>] : q \in QtyValues}
           \cup {[watch_remnants |-> ExampleInventory,
                  offer_ids |-> ExampleOffers]}
    /\ ret = [ok |-> FALSE, val |-> <<>>, exc |-> "none", offer_ids |-> <<>>]
    /\ MainIdle

CallCreateStocks ==
    /\ pc = "call"
    /\ pc' = "return"
    /\ ret' = create_stocks(args.watch_remnants, args.offer_ids)
    /\ UNCHANGED <<args, mainVars>>

SpecCreateStocks == InitCreateStocks /\ [][CallCreateStocks]_vars

PriceInventories ==
    SeqsUpTo({Watch(c, QtySeven, p) :
                 c \in Codes, p \in {PriceA, PriceB, NoneV}}, MaxInv)

InitCreatePrices ==
    /\ pc = "call"
    /\ args \in
         {[watch_remnants |-> i, offer_ids |-> k] :
             i \in PriceInventories, k \in SeqsUpTo(KnownIds, MaxK)}
           \cup {[watch_remnants |-> ExampleInventory,
                  offer_ids |-> ExampleOffers]}
    /\ ret = NoRet
    /\ MainIdle

CallCreatePrices ==
    /\ pc = "call"
    /\ pc' = "return"
    /\ ret' = create_prices(args.watch_remnants, args.offer_ids)
    /\ UNCHANGED <<args, mainVars>>

SpecCreatePrices == InitCreatePrices /\ [][CallCreatePrices]_vars

-----------------------------------------------------------------------------
(* main, from the try statement on (the credentials are loaded).  The      *)
(* marketplace and the feed are the environment: each successful page      *)
(* request returns some page and the total of the catalog, each download   *)
(* some inventory, and every external call may raise instead.              *)

\* what requests.post and raise_for_status raise
HttpErrors == {"ReadTimeout", "ConnectTimeout", "ConnectionError", "HTTPError"}

\* download_stock fails like an HTTP call, or on the archive
DownloadErrors == HttpErrors \cup {"BadZipFile"}

\* the classes an exception is an instance of
Mro(e) ==
    CASE e = "ReadTimeout" ->
             {"ReadTimeout", "Timeout", "RequestException", "Exception"}
      [] e = "ConnectTimeout" ->
             {"ConnectTimeout", "ConnectionError", "Timeout",
              "RequestException", "Exception"}
      [] e = "ConnectionError" ->
             {"ConnectionError", "RequestException", "Exception"}
      [] e = "HTTPError" -> {"HTTPError", "RequestException", "Exception"}
      [] OTHER -> {e, "Exception"}

HandlerNoCatchAll(e) ==
    IF "ReadTimeout" \in Mro(e) THEN "timeout"
    ELSE IF "ConnectionError" \in Mro(e) THEN "connection"
    ELSE "none"

\* the except clause of main that takes exception e, by what it prints
\* ("none": no clause takes it)
Handler(e) ==
    IF "ReadTimeout" \in Mro(e) THEN "timeout"
    ELSE IF "ConnectionError" \in Mro(e) THEN "connection"
    ELSE IF "Exception" \in Mro(e) THEN "ERROR_2"
    ELSE "none"

Call(fn, stocks_, prices_, ok) ==
    [fn |-> fn, stocks |-> stocks_, prices |-> prices_, ok |-> ok]

\* the large catalogs: one more offer than a stock batch holds, and a catalog
\* that serves the page of PriceBatch + 1 offers twice
BulkIds(n) == [i \in 1..n |-> IntStr(i)]
BulkTotals == {StockBatch + 1, 2 * (PriceBatch + 1)}
BulkInventory ==
    [i \in 1..(PriceBatch + 1) |-> Watch(IntV(i), QtySeven, PriceA)]

MainIds == {A, B}

\* the cursors a page may carry
Cursors == {"c1", "c2"}

\* the pages a catalog reporting total may serve
Pages(total) ==
    IF total = StockBatch + 1 THEN {BulkIds(StockBatch + 1)}
    ELSE IF total = 2 * (PriceBatch + 1) THEN {BulkIds(PriceBatch + 1)}
    ELSE SeqsUpTo(MainIds, PageMax) \cup {ExampleOffers}

\* the most items the pages of a catalog reporting total add up to
ItemCap(total) == IF total \in BulkTotals THEN total ELSE MaxItems

\* the records of the enumerated feeds: known and unknown codes, a quantity
\* int() rejects, a missing price
MainRecords ==
    {Watch(StrV(A), QtyMore, PriceA), Watch(StrV(B), QtySeven, PriceB),
     Watch(StrV(X), QtyOne, PriceA), Watch(StrV(A), QtyBad, PriceA),
     Watch(StrV(B), QtyMore, NoneV)}

\* the inventories the feed may hold: the large feed goes with the large
\* catalogs
Inventories(total) ==
    IF total \in BulkTotals THEN {BulkInventory}
    ELSE SeqsUpTo(MainRecords, MaxInv) \cup {ExampleInventory}

Init ==
    /\ pc = "get_offer_ids"
    /\ catalog_total \in (0..MaxTotal) \cup BulkTotals
    /\ page_requests = 0
    /\ last_id = ""
    /\ product_list = <<>>
    /\ offer_ids = <<>>
    /\ watch_remnants = <<>>
    /\ stocks = <<>>
    /\ prices = <<>>
    /\ pending = <<>>
    /\ calls = <<>>
    /\ exc = "none"
    /\ printed = "none"
    /\ args = <<>>
    /\ ret = NoRet

Counted(n) == IF n < MaxRequests THEN n + 1 ELSE n

\* get_offer_ids: one pass of the while loop with a page request that
\* succeeds; the loop ends when total == len(product_list)
GetProductListOk ==
    /\ pc = "get_offer_ids"
    /\ \E items \in Pages(catalog_total) :
           /\ Len(product_list) + Len(items) <= ItemCap(catalog_total)
           /\ product_list' = product_list \o items
    /\ page_requests' = Counted(page_requests)
    /\ IF catalog_total = Len(product_list')
       THEN pc' = "download_stock" /\ offer_ids' = product_list' /\ last_id' = ""
       ELSE last_id' \in Cursors /\ UNCHANGED <<pc, offer_ids>>
    /\ UNCHANGED <<catalog_total, watch_remnants, stocks, prices, pending,
                   calls, exc, printed, args, ret>>

\* get_offer_ids: a page request that raises
GetProductListFail ==
    /\ pc = "get_offer_ids"
    /\ page_requests' = Counted(page_requests)
    /\ \E e \in HttpErrors : exc' = e
    /\ pc' = "except"
    /\ UNCHANGED <<catalog_total, last_id, product_list, offer_ids,
                   watch_remnants, stocks, prices, pending, calls, printed,
                   args, ret>>

DownloadStockOk ==
    /\ pc = "download_stock"
    /\ watch_remnants' \in Inventories(catalog_total)
    /\ calls' = Append(calls, Call("download_stock", <<>>, <<>>, TRUE))
    /\ pc' = "create_stocks"
    /\ UNCHANGED <<catalog_total, page_requests, last_id, product_list, offer_ids,
                   stocks, prices, pending, exc, printed, args, ret>>

DownloadStockFail ==
    /\ pc = "download_stock"
    /\ \E e \in DownloadErrors : exc' = e
    /\ calls' = Append(calls, Call("download_stock", <<>>, <<>>, FALSE))
    /\ pc' = "except"
    /\ UNCHANGED <<catalog_total, page_requests, last_id, product_list, offer_ids,
                   watch_remnants, stocks, prices, pending, printed, args, ret>>

\* stocks = create_stocks(watch_remnants, offer_ids) and the list of chunks
\* the for loop runs over; create_stocks works on main's own offer_ids list
CreateStocks ==
    /\ pc = "create_stocks"
    /\ LET r == create_stocks(watch_remnants, offer_ids)
           d == divide(r.val, StockBatch)
       IN  /\ offer_ids' = r.offer_ids
           /\ IF ~r.ok
              THEN /\ exc' = r.exc
                   /\ pc' = "except"
                   /\ UNCHANGED <<stocks, pending>>
              ELSE /\ stocks' = r.val
                   /\ pending' = d.val
                   /\ exc' = d.exc
                   /\ pc' = IF ~d.ok THEN "except"
                            ELSE IF d.val = <<>> THEN "create_prices"
                            ELSE "update_stocks"
    /\ UNCHANGED <<catalog_total, page_requests, last_id, product_list, watch_remnants,
                   prices, calls, printed, args, ret>>

UpdateStocksOk ==
    /\ pc = "update_stocks"
    /\ calls' = Append(calls, Call("update_stocks", Head(pending), <<>>, TRUE))
    /\ pending' = Tail(pending)
    /\ pc' = IF pending' = <<>> THEN "create_prices" ELSE "update_stocks"
    /\ UNCHANGED <<catalog_total, page_requests, last_id, product_list, offer_ids,
                   watch_remnants, stocks, prices, exc, printed, args, ret>>

UpdateStocksFail ==
    /\ pc = "update_stocks"
    /\ \E e \in HttpErrors : exc' = e
    /\ calls' = Append(calls, Call("update_stocks", Head(pending), <<>>, FALSE))
    /\ pc' = "except"
    /\ UNCHANGED <<catalog_total, page_requests, last_id, product_list, offer_ids,
                   watch_remnants, stocks, prices, pending, printed, args, ret>>

\* prices = create_prices(watch_remnants, offer_ids), with the offer_ids
\* create_stocks left, and the list of chunks the for loop runs over
CreatePrices ==
    /\ pc = "create_prices"
    /\ LET r == create_prices(watch_remnants, offer_ids)
           d == divide(r.val, PriceBatch)
       IN  IF ~r.ok
           THEN /\ exc' = r.exc
                /\ pc' = "except"
                /\ UNCHANGED <<prices, pending>>
           ELSE /\ prices' = r.val
                /\ pending' = d.val
                /\ exc' = d.exc
                /\ pc' = IF ~d.ok THEN "except"
                         ELSE IF d.val = <<>> THEN "done"
                         ELSE "update_price"
    /\ UNCHANGED <<catalog_total, page_requests, last_id, product_list, offer_ids,
                   watch_remnants, stocks, calls, printed, args, ret>>

UpdatePriceOk ==
    /\ pc = "update_price"
    /\ calls' = Append(calls, Call("update_price", <<>>, Head(pending), TRUE))
    /\ pending' = Tail(pending)
    /\ pc' = IF pending' = <<>> THEN "done" ELSE "update_price"
    /\ UNCHANGED <<catalog_total, page_requests, last_id, product_list, offer_ids,
                   watch_remnants, stocks, prices, exc, printed, args, ret>>

UpdatePriceFail ==
    /\ pc = "update_price"
    /\ \E e \in HttpErrors : exc' = e
    /\ calls' = Append(calls, Call("update_price", <<>>, Head(pending), FALSE))
    /\ pc' = "except"
    /\ UNCHANGED <<catalog_total, page_requests, last_id, product_list, offer_ids,
                   watch_remnants, stocks, prices, pending, printed, args, ret>>

\* the except clauses: the first that takes the exception prints and main
\* returns; an exception no clause takes leaves main
Except ==
    /\ pc = "except"
    /\ printed' = Handler(exc)
    /\ pc' = IF Handler(exc) = "none" THEN "propagated" ELSE "done"
    /\ UNCHANGED <<catalog_total, page_requests, last_id, product_list, offer_ids,
                   watch_remnants, stocks, prices, pending, calls, exc, args,
                   ret>>

Next ==
    \/ GetProductListOk
    \/ GetProductListFail
    \/ DownloadStockOk
    \/ DownloadStockFail
    \/ CreateStocks
    \/ UpdateStocksOk
    \/ UpdateStocksFail
    \/ CreatePrices
    \/ UpdatePriceOk
    \/ UpdatePriceFail
    \/ Except

\* the program is sequential, so it takes its next step whenever it has
\* one; the fairness is stated for the steps the liveness claims rest on:
\* the page requests and the except clauses
Spec ==
    /\ Init
    /\ [][Next]_vars
    /\ WF_vars(GetProductListOk \/ GetProductListFail)
    /\ WF_vars(Except)

-----------------------------------------------------------------------------
(* Claims about price_conversion and divide. *)

\* C6: price_conversion of a string returns exactly the ASCII digits, in
\* order, of the part of the input before its first "." (the whole input
\* when it has none), and nothing but digits; 5'990.00 rub. gives 5990.
C6_DigitsBeforeFirstDot ==
    (pc = "return" /\ args.price.t = "str") =>
        LET s == args.price.s
            dots == {i \in 1..Len(s) : s[i] = "."}
            P == {i \in 1..Len(s) :
                     s[i] \in Digits /\ \A j \in dots : i < j}
            r == ret.val
        IN  /\ ret.ok
            /\ Len(r) = Cardinality(P)
            /\ \A i \in P : r[Cardinality({p \in P : p <= i})] = s[i]
            /\ \A j \in 1..Len(r) : r[j] \in Digits
            /\ (s = PriceExample => r = <<"5", "9", "9", "0">>)

\* C6 witness: the docstring's example, which has digits after its first ".",
\* has been converted to 5990
C6_Witness ==
    /\ pc = "return"
    /\ args.price = StrV(PriceExample)
    /\ ret.ok
    /\ ret.val = <<"5", "9", "9", "0">>

\* C4: for every n >= 1, divide(lst, n) yields slices whose concatenation
\* is lst; every chunk but the last has length n, the last has a length in
\* 1..n, and the empty list yields no chunk.
C4_ChunksPartition ==
    (pc = "return" /\ args.n >= 1) =>
        LET c == ret.val
        IN  /\ ret.ok
            /\ Concat(c) = args.lst
            /\ \A k \in 1..(Len(c) - 1) : Len(c[k]) = args.n
            /\ Len(c) > 0 => Len(c[Len(c)]) \in 1..args.n
            /\ args.lst = <<>> => c = <<>>

\* C4 witness: a list of three items cut by two: a full chunk and a shorter
\* last one
C4_Witness ==
    /\ pc = "return"
    /\ args.n = 2
    /\ Len(args.lst) = 3
    /\ Len(ret.val) = 2
    /\ Len(ret.val[2]) = 1

\* C7: divide(lst, n) fails with an error for every n <= 0, whatever lst is;
\* it never completes normally with such a size.
C7_NonPositiveSizeFails ==
    (pc = "return" /\ args.n <= 0) => ~ret.ok

-----------------------------------------------------------------------------
(* Claims about create_stocks and create_prices. *)

Distinct(s) == \A i, j \in 1..Len(s) : s[i] = s[j] => i = j

\* C1: for a known-offer list K of distinct identifiers and any inventory,
\* a create_stocks call that returns gives exactly |K| entries: every
\* identifier of K (as it was on entry) is the offer_id of exactly one entry
\* and no entry has an offer_id outside K.
C1_OneEntryPerKnownOffer ==
    (pc = "return" /\ ret.ok /\ Distinct(args.offer_ids)) =>
        LET K == args.offer_ids
            r == ret.val
        IN  /\ Len(r) = Len(K)
            /\ \A id \in Range(K) :
                   Cardinality({j \in 1..Len(r) : r[j].offer_id = id}) = 1
            /\ \A j \in 1..Len(r) : r[j].offer_id \in Range(K)

\* C1 witness: two records with the same known code and a list of two
\* distinct identifiers; the call returned two entries
C1_Witness ==
    /\ pc = "return"
    /\ ret.ok
    /\ Len(args.watch_remnants) = 2
    /\ args.watch_remnants[1].Kod = args.watch_remnants[2].Kod
    /\ PyStr(args.watch_remnants[1].Kod) \in Range(args.offer_ids)
    /\ Distinct(args.offer_ids)
    /\ Len(args.offer_ids) = 2
    /\ Len(ret.val) = 2

\* the records of inventory I whose string-form code is a member of K
InK(I, K) == {i \in 1..Len(I) : PyStr(I[i].Kod) \in Range(K)}

\* C3: when the prices of the inventory are strings, create_prices returns,
\* in inventory order, exactly one entry for each record whose string-form
\* code is a member of the known-offer list and no other entry (inventory
\* [A] with known offers [B] gives nothing); each entry carries currency_code
\* "RUB", auto_action_enabled "UNKNOWN" and old_price "0".
C3_PricesOnlyForKnownInventory ==
    (/\ pc = "return"
     /\ \A i \in 1..Len(args.watch_remnants) :
            args.watch_remnants[i].Cena.t = "str") =>
        LET I == args.watch_remnants
            K == args.offer_ids
            M == InK(I, K)
            r == ret.val
        IN  /\ ret.ok
            /\ Len(r) = Cardinality(M)
            /\ \A i \in M :
                   r[Cardinality({m \in M : m <= i})].offer_id = PyStr(I[i].Kod)
            /\ \A j \in 1..Len(r) :
                   /\ r[j].offer_id \in Range(K)
                   /\ \E i \in 1..Len(I) : PyStr(I[i].Kod) = r[j].offer_id
                   /\ r[j].currency_code = "RUB"
                   /\ r[j].auto_action_enabled = "UNKNOWN"
                   /\ r[j].old_price = "0"
            /\ (Len(I) = 1 /\ PyStr(I[1].Kod) = A /\ K = <<B>>) => r = <<>>

\* C3 witness: a known record and an unknown one; one entry came back
C3_Witness ==
    /\ pc = "return"
    /\ ret.ok
    /\ Len(args.watch_remnants) = 2
    /\ Cardinality(InK(args.watch_remnants, args.offer_ids)) = 1
    /\ PyStr(args.watch_remnants[1].Kod) = X
    /\ Len(ret.val) = 1
    /\ ret.val[1].offer_id = PyStr(args.watch_remnants[2].Kod)

\* an integer written in decimal digits, with an optional sign
IntegerString(s) ==
    LET body == IF s # <<>> /\ Head(s) \in {"+", "-"} THEN Tail(s) ELSE s
    IN  body # <<>> /\ \A i \in 1..Len(body) : body[i] \in Digits

\* the stock the quantity rule gives a quantity string, when it gives one
RuleStock(q) ==
    IF q = <<">", "1", "0">> THEN 100
    ELSE IF q = <<"1">> THEN 0
    ELSE LET v == DigitsVal(IF Head(q) \in {"+", "-"} THEN Tail(q) ELSE q)
         IN  IF Head(q) = "-" THEN -v ELSE v

\* record i of I is matched to a known offer: its code is on the list and
\* fewer earlier records carry that code than the list has copies of it
MatchedRecord(I, K, i) ==
    /\ PyStr(I[i].Kod) \in Range(K)
    /\ Cardinality({j \in 1..(i - 1) : PyStr(I[j].Kod) = PyStr(I[i].Kod)})
           < Count(K, PyStr(I[i].Kod))

\* C5: for every record matched to a known offer, create_stocks computes
\* stock from the quantity string: ">10" gives 100, "1" gives 0, any other
\* integer string gives its value; a quantity that is not an integer string
\* makes the call fail instead of returning a coerced value.
C5_QuantityRule ==
    (pc = "return") =>
        LET I == args.watch_remnants
            K == args.offer_ids
            M == {i \in 1..Len(I) : MatchedRecord(I, K, i)}
            q(i) == PyStr(I[i].Kolichestvo)
            ruled(i) == q(i) = <<">", "1", "0">> \/ IntegerString(q(i))
        IN  /\ (\E i \in M : ~ruled(i)) => ~ret.ok
            /\ ret.ok =>
                 \A i \in M :
                     ret.val[Cardinality({m \in M : m <= i})].stock
                         = RuleStock(q(i))

-----------------------------------------------------------------------------
(* Claims about main. *)

\* the calls of the log made to fn, in order
CallsTo(fn) == SelectSeq(calls, LAMBDA c : c.fn = fn)

\* the entries of the batches written to fn, in the order sent
Sent(fn) ==
    LET w == CallsTo(fn)
    IN  Concat([k \in 1..Len(w) |-> w[k].stocks \o w[k].prices])

\* C2: in a run of main that ends without a failure, the price list computed
\* and dispatched has an entry for every inventory record whose identifier
\* is among the offer identifiers fetched in that run; for known offers
\* A, B, C and inventory records A and B it has entries for A and B.
C2_PricesCoverFetchedOffers ==
    (pc = "done" /\ exc = "none") =>
        /\ \A i \in 1..Len(watch_remnants) :
               PyStr(watch_remnants[i].Kod) \in Range(product_list) =>
                   /\ \E j \in 1..Len(prices) :
                          prices[j].offer_id = PyStr(watch_remnants[i].Kod)
                   /\ \E j \in 1..Len(Sent("update_price")) :
                          Sent("update_price")[j].offer_id
                              = PyStr(watch_remnants[i].Kod)
        /\ (product_list = ExampleOffers /\ watch_remnants = ExampleInventory)
               => [j \in 1..Len(prices) |-> prices[j].offer_id] = <<A, B>>

\* C8: the fetch loop of get_offer_ids ends for every catalog whose calls
\* succeed, an empty or a misbehaving one included; it is left at the first
\* page after which the items collected equal the reported total, and on an
\* empty catalog after the first page request.
C8_FetchLoopTerminates ==
    /\ <>(pc # "get_offer_ids")
    /\ [](pc = "get_offer_ids" =>
              (page_requests = 0 \/ Len(product_list) # catalog_total))
    /\ []((catalog_total = 0 /\ pc = "download_stock") => page_requests = 1)

\* C9: once a call has failed in a run of main, no further external call is
\* made, what was written stays written, and main ends by printing a message:
\* the exception never leaves main.
C9_FailureEndsRun ==
    /\ [][exc # "none" =>
              (calls' = calls /\ page_requests' = page_requests)]_vars
    /\ [][Len(calls') >= Len(calls)
              /\ SubSeq(calls', 1, Len(calls)) = calls]_vars
    /\ [](pc # "propagated")
    /\ [](pc = "done" /\ exc # "none" => printed # "none")
    /\ (exc # "none" ~> (pc = "done" /\ printed # "none"))

\* C9 witness: a stock write failed after an earlier batch was written, and
\* main has ended by printing
C9_Witness ==
    /\ pc = "done"
    /\ exc = "HTTPError"
    /\ printed = "ERROR_2"
    /\ Len(calls) >= 3
    /\ calls[Len(calls) - 1].fn = "update_stocks"
    /\ calls[Len(calls) - 1].ok
    /\ calls[Len(calls)].fn = "update_stocks"
    /\ ~calls[Len(calls)].ok

CallRank(fn) ==
    CASE fn = "download_stock" -> 1
      [] fn = "update_stocks" -> 2
      [] fn = "update_price" -> 3

\* C10: while no call has failed, the external calls come in the order
\* offer fetch, inventory fetch, stock writes, price writes; a stock write
\* carries 1 to 100 entries and a price write 1 to 900; and when the run
\* ends, the batches of each kind, put end to end in the order sent, are the
\* full stock list and the full price list.
C10_OrderedBatches ==
    (exc = "none") =>
        /\ (pc = "get_offer_ids" => calls = <<>>)
        /\ (calls # <<>> =>
                page_requests >= 1 /\ calls[1].fn = "download_stock")
        /\ Len(CallsTo("download_stock")) <= 1
        /\ \A i, j \in 1..Len(calls) :
               i < j => CallRank(calls[i].fn) <= CallRank(calls[j].fn)
        /\ \A i \in 1..Len(calls) :
               /\ calls[i].fn = "update_stocks" =>
                      /\ Len(calls[i].stocks) \in 1..StockBatch
                      /\ calls[i].prices = <<>>
               /\ calls[i].fn = "update_price" =>
                      /\ Len(calls[i].prices) \in 1..PriceBatch
                      /\ calls[i].stocks = <<>>
        /\ (pc = "done" =>
                /\ Sent("update_stocks") = stocks
                /\ Sent("update_price") = prices)

\* C10 witness: a run without failure that took several stock writes and
\* several price writes has ended
C10_Witness ==
    /\ pc = "done"
    /\ exc = "none"
    /\ Len(CallsTo("update_stocks")) >= 2
    /\ Len(CallsTo("update_price")) >= 2
    /\ Len(calls[Len(calls)].prices) < PriceBatch

=============================================================================
